---- MODULE Spec2Model ----
(***************************************************************************)
(* Power-limited resistance-vs-speed explorer (src/src/App.tsx and its     *)
(* predecessor src/src/App_old.tsx).                                       *)
(*                                                                         *)
(* The component's state is the set of useState cells; the derived values  *)
(* are useMemo cells (a cached value plus the dependency list it was       *)
(* computed under).  Every handler is one action: it updates the state     *)
(* cells and then re-renders, i.e. re-evaluates every useMemo in source    *)
(* order.                                                                  *)
(*                                                                         *)
(* JavaScript numbers are modelled as sign-magnitude rationals with the    *)
(* IEEE special values NaN, +Infinity, -Infinity and a signed zero.        *)
(* + - * / are exact on the rationals (binary rounding is abstracted),     *)
(* Math.sqrt is exact on rational squares and rounded toward zero onto a   *)
(* grid otherwise.  TLC integers are 32 bits wide, so the three long       *)
(* decimal literals of the source are carried to three significant digits. *)
(***************************************************************************)
EXTENDS Integers, Sequences, FiniteSets, TLC

(***************************************************************************)
(* Numbers.  An operator that reads an argument more than once binds it    *)
(* first (v \in {e}), so that every argument is evaluated once.            *)
(***************************************************************************)

\* the element of a one-element set
The(S) == CHOOSE r \in S : TRUE

\* largest integer TLC represents
MaxInt == 2147483646 + 1

RECURSIVE GCD(_, _)
GCD(a, b) == The({IF y = 0 THEN x ELSE GCD(y, x % y) : x \in {a}, y \in {b}})

NaN == [k |-> "nan", s |-> 1, n |-> 0, d |-> 1]
PosInf == [k |-> "inf", s |-> 1, n |-> 0, d |-> 1]
Inf(s) == [k |-> "inf", s |-> s, n |-> 0, d |-> 1]

\* the finite number s * n / d in lowest terms (n >= 0, d > 0)
Fin(s, n, d) ==
    The({IF a = 0 THEN [k |-> "fin", s |-> s, n |-> 0, d |-> 1]
         ELSE The({[k |-> "fin", s |-> s, n |-> a \div g, d |-> b \div g] :
                      g \in {GCD(a, b)}}) :
            a \in {n}, b \in {d}})

\* the integer i as a number
Int2Num(i) == IF i < 0 THEN Fin(-1, -i, 1) ELSE Fin(1, i, 1)
\* the rational a / b (b > 0) as a number
Rat(a, b) == IF a < 0 THEN Fin(-1, -a, b) ELSE Fin(1, a, b)

Zero == [k |-> "fin", s |-> 1, n |-> 0, d |-> 1]
NegZero == [k |-> "fin", s |-> -1, n |-> 0, d |-> 1]
One == [k |-> "fin", s |-> 1, n |-> 1, d |-> 1]

IsNaN(x) == x.k = "nan"
IsInf(x) == x.k = "inf"
IsFinite(x) == x.k = "fin"
IsZero(x) == \E a \in {x} : a.k = "fin" /\ a.n = 0

\* comparison of the positive rationals a/b and c/d by continued fractions
\* (no product is formed, so it cannot overflow): -1, 0 or 1
RECURSIVE CmpMag(_, _, _, _)
CmpMag(a, b, c, d) ==
    The({IF n1 \div d1 < n2 \div d2 THEN -1
         ELSE IF n1 \div d1 > n2 \div d2 THEN 1
         ELSE IF n1 % d1 = 0 /\ n2 % d2 = 0 THEN 0
         ELSE IF n1 % d1 = 0 THEN -1
         ELSE IF n2 % d2 = 0 THEN 1
         ELSE 0 - CmpMag(d1, n1 % d1, d2, n2 % d2) :
            n1 \in {a}, d1 \in {b}, n2 \in {c}, d2 \in {d}})

\* three-way comparison of two numbers that are not NaN (-0 equals +0)
Cmp(x, y) ==
    The({IF IsInf(a) \/ IsInf(b)
         THEN IF IsInf(a) /\ IsInf(b)
              THEN (IF a.s = b.s THEN 0 ELSE a.s)
              ELSE IF IsInf(a) THEN a.s ELSE 0 - b.s
         ELSE IF a.n = 0 /\ b.n = 0 THEN 0
         ELSE IF a.n = 0 THEN 0 - b.s
         ELSE IF b.n = 0 THEN a.s
         ELSE IF a.s # b.s THEN a.s
         ELSE a.s * CmpMag(a.n, a.d, b.n, b.d) :
            a \in {x}, b \in {y}})

\* the relational operators: every comparison with NaN is false
Lt(x, y) ==
    \E a \in {x}, b \in {y} : ~IsNaN(a) /\ ~IsNaN(b) /\ Cmp(a, b) < 0
Le(x, y) ==
    \E a \in {x}, b \in {y} : ~IsNaN(a) /\ ~IsNaN(b) /\ Cmp(a, b) <= 0
Gt(x, y) == Lt(y, x)
Ge(x, y) == Le(y, x)
\* x === y
NumEq(x, y) ==
    \E a \in {x}, b \in {y} : ~IsNaN(a) /\ ~IsNaN(b) /\ Cmp(a, b) = 0

\* unary minus
Neg(x) == The({IF IsNaN(a) THEN NaN ELSE [a EXCEPT !.s = 0 - a.s] : a \in {x}})

\* |x|
Abs(x) == The({IF IsNaN(a) THEN NaN ELSE [a EXCEPT !.s = 1] : a \in {x}})

\* the sum of the finite numbers a and b, none 0, g being GCD(a.d, b.d)
AddOver(a, b, g) ==
    LET p == a.n * (b.d \div g)
        q == b.n * (a.d \div g)
        d == (a.d \div g) * b.d
    IN  IF a.s = b.s THEN Fin(a.s, p + q, d)
        ELSE IF p = q THEN Zero
        ELSE IF p > q THEN Fin(a.s, p - q, d)
        ELSE Fin(b.s, q - p, d)

\* x + y
Add(x, y) ==
    The({IF IsNaN(a) \/ IsNaN(b) THEN NaN
         ELSE IF IsInf(a) /\ IsInf(b) THEN (IF a.s = b.s THEN a ELSE NaN)
         ELSE IF IsInf(a) THEN a
         ELSE IF IsInf(b) THEN b
         ELSE IF a.n = 0 /\ b.n = 0
              THEN (IF a.s = -1 /\ b.s = -1 THEN NegZero ELSE Zero)
         ELSE IF a.n = 0 THEN b
         ELSE IF b.n = 0 THEN a
         ELSE The({AddOver(a, b, g) : g \in {GCD(a.d, b.d)}}) :
            a \in {x}, b \in {y}})

\* x - y
Sub(x, y) == Add(x, Neg(y))

\* x * y
Mul(x, y) ==
    The({IF IsNaN(a) \/ IsNaN(b) THEN NaN
         ELSE IF IsInf(a) \/ IsInf(b)
              THEN (IF IsZero(a) \/ IsZero(b) THEN NaN ELSE Inf(a.s * b.s))
         ELSE IF a.n = 0 \/ b.n = 0
              THEN [k |-> "fin", s |-> a.s * b.s, n |-> 0, d |-> 1]
         ELSE The({Fin(a.s * b.s, (a.n \div g1) * (b.n \div g2),
                       (a.d \div g2) * (b.d \div g1)) :
                      g1 \in {GCD(a.n, b.d)}, g2 \in {GCD(b.n, a.d)}}) :
            a \in {x}, b \in {y}})

\* x / y
Div(x, y) ==
    The({IF IsNaN(a) \/ IsNaN(b) THEN NaN
         ELSE IF IsInf(a) THEN (IF IsInf(b) THEN NaN ELSE Inf(a.s * b.s))
         ELSE IF IsInf(b)
              THEN [k |-> "fin", s |-> a.s * b.s, n |-> 0, d |-> 1]
         ELSE IF b.n = 0 THEN (IF a.n = 0 THEN NaN ELSE Inf(a.s * b.s))
         ELSE IF a.n = 0
              THEN [k |-> "fin", s |-> a.s * b.s, n |-> 0, d |-> 1]
         ELSE The({Fin(a.s * b.s, (a.n \div g1) * (b.d \div g2),
                       (a.d \div g2) * (b.n \div g1)) :
                      g1 \in {GCD(a.n, b.n)}, g2 \in {GCD(a.d, b.d)}}) :
            a \in {x}, b \in {y}})

\* Math.max(x, y): NaN if either is NaN, and +0 is larger than -0
Max2(x, y) ==
    The({IF IsNaN(a) \/ IsNaN(b) THEN NaN
         ELSE The({IF c > 0 THEN a
                   ELSE IF c < 0 THEN b
                   ELSE IF a.s = 1 THEN a ELSE b : c \in {Cmp(a, b)}}) :
            a \in {x}, b \in {y}})

\* Math.min(x, y): NaN if either is NaN, and -0 is smaller than +0
Min2(x, y) ==
    The({IF IsNaN(a) \/ IsNaN(b) THEN NaN
         ELSE The({IF c < 0 THEN a
                   ELSE IF c > 0 THEN b
                   ELSE IF a.s = -1 THEN a ELSE b : c \in {Cmp(a, b)}}) :
            a \in {x}, b \in {y}})

\* Math.min(x, y, z)
Min3(x, y, z) == Min2(Min2(x, y), z)

\* floor of the square root of the natural number N, bit by bit from b down
RECURSIVE SqrtBits(_, _, _)
SqrtBits(N, r, b) ==
    The({IF c = 0 THEN a
         ELSE IF a + c <= 46340 /\ (a + c) * (a + c) <= m
              THEN SqrtBits(m, a + c, c \div 2)
              ELSE SqrtBits(m, a, c \div 2) :
            m \in {N}, a \in {r}, c \in {b}})

ISqrt(N) == SqrtBits(N, 0, 32768)

\* the grid of an inexact square root: multiples of 1 / SqrtDen
SqrtDen == 2 ^ 6

\* floor(sqrt(n / d) * D) for naturals n, d > 0: the integer part and the
\* fraction of n / d are scaled apart so no product leaves the 32 bits
SqrtScaled(n, d, D) ==
    The({ISqrt((n \div d) * (G * G) + ((n % d) * (G * G)) \div d) : G \in {D}})

\* the finest grid not above SqrtDen on which sqrt(n / d) stays in range
RECURSIVE SqrtGrid(_, _, _)
SqrtGrid(n, d, D) ==
    The({IF G = 1 \/ ((n \div d) + 1 <= MaxInt \div (G * G)
                       /\ d <= MaxInt \div (G * G))
         THEN G
         ELSE SqrtGrid(n, d, G \div 2) : G \in {D}})

\* Math.sqrt(x): NaN below zero, sqrt(-0) = -0, exact on rational squares
Sqrt(x) ==
    The({IF IsNaN(a) THEN NaN
         ELSE IF IsInf(a) THEN (IF a.s = 1 THEN PosInf ELSE NaN)
         ELSE IF a.n = 0 THEN a
         ELSE IF a.s = -1 THEN NaN
         ELSE The({IF rn * rn = a.n /\ rd * rd = a.d THEN Fin(1, rn, rd)
                   ELSE The({Fin(1, SqrtScaled(a.n, a.d, D), D) :
                                D \in {SqrtGrid(a.n, a.d, SqrtDen)}}) :
                      rn \in {ISqrt(a.n)}, rd \in {ISqrt(a.d)}}) :
            a \in {x}})

\* Math.round(x): the nearest integer, ties toward +Infinity
Round(x) ==
    The({IF ~IsFinite(a) THEN a
         ELSE IF a.s = 1
              THEN Fin(1, IF 2 * (a.n % a.d) >= a.d THEN (a.n \div a.d) + 1
                          ELSE a.n \div a.d, 1)
              ELSE Fin(-1, IF 2 * (a.n % a.d) > a.d THEN (a.n \div a.d) + 1
                           ELSE a.n \div a.d, 1) :
            a \in {x}})

(***************************************************************************)
(* Text: a string is a sequence of one-character strings                   *)
(***************************************************************************)

DigitChars == <<"0", "1", "2", "3", "4", "5", "6", "7", "8", "9">>
IsDigit(ch) == \E i \in 1..10 : DigitChars[i] = ch
DigitVal(ch) == (CHOOSE i \in 1..10 : DigitChars[i] = ch) - 1

\* the index of the first character at or after i that is not a blank
RECURSIVE SkipBlanks(_, _)
SkipBlanks(t, i) ==
    IF i <= Len(t) /\ t[i] = " " THEN SkipBlanks(t, i + 1) ELSE i

\* the index of the first character at or after i that is not a digit
RECURSIVE EndOfDigits(_, _)
EndOfDigits(t, i) ==
    IF i <= Len(t) /\ IsDigit(t[i]) THEN EndOfDigits(t, i + 1) ELSE i

\* the value of the digits t[i .. j-1], acc being the value read so far
RECURSIVE DigitsValue(_, _, _, _)
DigitsValue(t, i, j, acc) ==
    IF i >= j THEN acc ELSE DigitsValue(t, i + 1, j, 10 * acc + DigitVal(t[i]))

InfinityText == <<"I", "n", "f", "i", "n", "i", "t", "y">>
StartsWith(t, i, w) ==
    /\ i + Len(w) - 1 <= Len(t)
    /\ \A j \in 1..Len(w) : t[i + j - 1] = w[j]

\* parseFloat(t): blanks, a sign, then "Infinity" or digits [. digits]; the
\* longest such prefix is read and the rest ignored; NaN when there is no
\* digit.  (An exponent part is not read: no text of the model has one.)
parseFloat(t) ==
    LET i0 == SkipBlanks(t, 1)
        signed == i0 <= Len(t) /\ t[i0] \in {"+", "-"}
        s == IF signed /\ t[i0] = "-" THEN -1 ELSE 1
        i1 == IF signed THEN i0 + 1 ELSE i0
        i2 == EndOfDigits(t, i1)
        dot == i2 <= Len(t) /\ t[i2] = "."
        i3 == IF dot THEN EndOfDigits(t, i2 + 1) ELSE i2
        nInt == i2 - i1
        nFrac == IF dot THEN i3 - (i2 + 1) ELSE 0
    IN  IF StartsWith(t, i1, InfinityText) THEN Inf(s)
        ELSE IF nInt + nFrac = 0 THEN NaN
        ELSE Fin(s, DigitsValue(t, i2 + 1, i3, DigitsValue(t, i1, i2, 0)),
                 10 ^ nFrac)

\* number(val) for a string val: parseFloat, and 0 for NaN and +-Infinity
number(val) ==
    LET n == parseFloat(val)
    IN  IF IsFinite(n) THEN n ELSE Zero

\* the decimal digits of the natural number i
RECURSIVE NatText(_)
NatText(i) ==
    IF i < 10 THEN <<DigitChars[i + 1]>>
    ELSE NatText(i \div 10) \o <<DigitChars[(i % 10) + 1]>>

\* String(w) for an integer w (the only numbers a limit list holds)
NumText(w) ==
    IF w.s = -1 /\ w.n # 0 THEN <<"-">> \o NatText(w.n) ELSE NatText(w.n)

\* the template literal `${w} W`
Label(w) == NumText(w) \o <<" ", "W">>

(***************************************************************************)
(* Program constants                                                       *)
(***************************************************************************)

\* 1 / 4.4482216152605, the divisor carried as 4.45
LBF_PER_N == Div(One, Rat(445, 100))
\* 9.5492965964254, carried as 9.55
KTKV == Rat(955, 100)
\* the denominator floor 1e-9
Eps == Rat(1, 1000000000)
\* copper temperature coefficient 0.0039 per degree C
alpha == Rat(39, 10000)
\* microhenry to henry, 1e-6
MicroH == Rat(1, 1000000)
\* samples of the d-axis current are k / N_ID, k = 0 .. N_ID
N_ID == 40
\* presets = [450, 1000, 1500, 2000, 3000, 5000]
presets == <<Int2Num(450), Int2Num(1000), Int2Num(1500), Int2Num(2000),
             Int2Num(3000), Int2Num(5000)>>

\* the useState initial values, which resetDefaults restores (customW, which
\* it leaves alone, apart)
Defaults ==
    [constMode |-> "KT", KtState |-> Rat(272, 1000), KvState |-> Int2Num(35),
     mode |-> "CONC", Rll |-> Rat(164, 1000), Lll_uH |-> Int2Num(235),
     winding |-> "DELTA", copperTempC |-> Int2Num(25), Vbus |-> Int2Num(48),
     util |-> Rat(95, 100), Imax |-> Int2Num(72), idFWmax |-> Zero,
     gearRatio |-> Int2Num(10), gearEff |-> Rat(9, 10),
     drumRadius |-> Rat(5, 100), maxSpeed |-> Int2Num(3),
     steps |-> Int2Num(60), selected |-> <<Int2Num(3000)>>]

(***************************************************************************)
(* The useMemo bodies.  s is the record of state cells of the render, and  *)
(* the other arguments are the memo values the body reads.                 *)
(***************************************************************************)

KtBody(s) ==
    IF s.constMode = "KT" THEN s.KtState ELSE Div(KTKV, Max2(Eps, s.KvState))

TmMaxBody(Kt, Imax) == Mul(Kt, Imax)

RphaseBaseBody(s) ==
    IF s.winding = "WYE" THEN Div(s.Rll, Int2Num(2)) ELSE Mul(Rat(3, 2), s.Rll)

LphaseBaseBody(s) ==
    LET Lll == Mul(s.Lll_uH, MicroH)
    IN  IF s.winding = "WYE" THEN Div(Lll, Int2Num(2)) ELSE Mul(Rat(3, 2), Lll)

RphaseBody(RphaseBase, copperTempC) ==
    Mul(RphaseBase, Add(One, Mul(alpha, Sub(copperTempC, Int2Num(25)))))

\* the coefficient with Kt not squared
kcuLinear(Rphase, Kt) == Div(Mul(Int2Num(3), Rphase), Kt)

kcuBody(Rphase, Kt) == Div(Mul(Int2Num(3), Rphase), Mul(Kt, Kt))

VphaseMaxBody(s) == Div(Mul(s.util, s.Vbus), Sqrt(Int2Num(3)))

seriesKeysBody(selected) == [j \in 1..Len(selected) |-> Label(selected[j])]

(***************************************************************************)
(* The body of the data memo of App.tsx.  c is the record of the values    *)
(* the closure reads: selected, maxSpeed, steps, drumRadius, gearRatio,    *)
(* gearEff, Imax, idFWmax, Rphase, LphaseBase, Kt, VphaseMax, TmMax, mode. *)
(***************************************************************************)

\* const step = Math.max(1, steps)
StepOf(c) == Max2(One, c.steps)

\* the last i with i <= step: the loop runs i = 0 .. LastRow(c)
LastRow(c) == StepOf(c).n \div StepOf(c).d

\* v = (maxSpeed * i) / step
SpeedAt(c, i) == Div(Mul(c.maxSpeed, Int2Num(i)), StepOf(c))

\* omega_m = (v / Math.max(1e-9, drumRadius)) * gearRatio
OmegaM(c, v) == Mul(Div(v, Max2(Eps, c.drumRadius)), c.gearRatio)

\* A = R * R + (omega_m * L) * (omega_m * L)
CoefA(c, omega_m) ==
    Add(Mul(c.Rphase, c.Rphase),
        Mul(Mul(omega_m, c.LphaseBase), Mul(omega_m, c.LphaseBase)))

\* Babs = 2 * R * omega_m * Ke
CoefBabs(c, omega_m) == Mul(Mul(Mul(Int2Num(2), c.Rphase), omega_m), c.Kt)

\* a grid that forgets the field-weakening cap: id = -(k / N_ID)
IdAtUnit(c, k) == Mul(Neg(One), Div(Int2Num(k), Int2Num(N_ID)))

\* a grid of N_ID + 1 samples that starts one step below id = 0
IdAtBelowZero(c, k) ==
    Mul(Neg(c.idFWmax), Div(Int2Num(k + 1), Int2Num(N_ID)))

\* id = -idFWmax * (k / N_ID)
IdAt(c, k) == Mul(Neg(c.idFWmax), Div(Int2Num(k), Int2Num(N_ID)))

\* the current limit left out of the search
IqMaxCurrentOff(c, id) == PosInf

\* iqMaxCurrent = Math.sqrt(Math.max(0, Imax * Imax - id * id))
IqMaxCurrent(c, id) == Sqrt(Max2(Zero, Sub(Mul(c.Imax, c.Imax), Mul(id, id))))

\* Math.pow(x, 2)
Pow2(x) == The({Mul(a, a) : a \in {x}})

\* C = (R*id)*(R*id) + Math.pow(omega_m * (L*id + Ke), 2) - Vmax*Vmax
CoefC(c, omega_m, id) ==
    Sub(Add(Mul(Mul(c.Rphase, id), Mul(c.Rphase, id)),
            Pow2(Mul(omega_m, Add(Mul(c.LphaseBase, id), c.Kt)))),
        Mul(c.VphaseMax, c.VphaseMax))

\* disc = Babs * Babs - 4 * A * C
VoltDisc(A, Babs, C) == Sub(Mul(Babs, Babs), Mul(Mul(Int2Num(4), A), C))

\* a negative voltage discriminant read as "no bound"
VoltNotBinding == PosInf

\* the branch taken when the voltage discriminant is negative: the two
\* bounds keep their initial value 0
VoltInfeasible == Zero

\* iqMaxVolt: the root with -Babs (CONC) or +Babs (ECC) when disc >= 0
IqMaxVolt(c, A, Babs, disc) ==
    IF Ge(disc, Zero)
    THEN LET sqrtD == Sqrt(disc)
             iqMaxVoltConc ==
                 Max2(Zero, Div(Add(Neg(Babs), sqrtD), Mul(Int2Num(2), A)))
             iqMaxVoltEcc ==
                 Max2(Zero, Div(Add(Babs, sqrtD), Mul(Int2Num(2), A)))
         IN  IF c.mode = "CONC" THEN iqMaxVoltConc ELSE iqMaxVoltEcc
    ELSE VoltInfeasible

\* the discriminant with the sign of the supply limit reversed
PowerDiscReversed(c, omega_m, id, Pin) ==
    LET aP == Mul(Int2Num(3), c.Rphase)
        cP == Add(Mul(Mul(Mul(Int2Num(3), c.Rphase), id), id), Pin)
    IN  The({Sub(Mul(bP, bP), Mul(Mul(Int2Num(4), aP), cP)) :
                bP \in {Mul(c.Kt, omega_m)}})

\* Dp = bP * bP - 4 * aP * cP with aP = 3 R, bP = Kt omega_m, cP = 3 R id id - Pin
PowerDisc(c, omega_m, id, Pin) ==
    LET aP == Mul(Int2Num(3), c.Rphase)
        cP == Sub(Mul(Mul(Mul(Int2Num(3), c.Rphase), id), id), Pin)
    IN  The({Sub(Mul(bP, bP), Mul(Mul(Int2Num(4), aP), cP)) :
                bP \in {Mul(c.Kt, omega_m)}})

\* the supply limit applied in both directions
PowerLimitedAlways(mode) == TRUE

\* whether the supply limit is applied: motoring only
PowerLimited(mode) == mode = "CONC"

\* iqMaxPower with a negative discriminant treated as no limit at all
IqMaxPowerUnlimited(c, omega_m, Dp) ==
    LET aP == Mul(Int2Num(3), c.Rphase)
        bP == Mul(c.Kt, omega_m)
    IN  IF Ge(Dp, Zero)
        THEN Max2(Zero, Div(Add(Neg(bP), Sqrt(Dp)), Mul(Int2Num(2), aP)))
        ELSE PosInf

\* iqMaxPower under the supply limit: the positive root, or 0 when Dp < 0
IqMaxPower(c, omega_m, Dp) ==
    LET aP == Mul(Int2Num(3), c.Rphase)
        bP == Mul(c.Kt, omega_m)
    IN  IF Ge(Dp, Zero)
        THEN Max2(Zero, Div(Add(Neg(bP), Sqrt(Dp)), Mul(Int2Num(2), aP)))
        ELSE Zero

\* the body of the loop over k for the d-axis current id: everything it
\* computes (Dp is NaN where the power branch is not entered)
SampleAt(c, omega_m, A, Babs, Pin, id) ==
    The({The({The({[id |-> id, iqMaxCurrent |-> iqMaxCurrent, disc |-> disc,
                    iqMaxVolt |-> iqMaxVolt, iqMaxPower |-> iqMaxPower,
                    Dp |-> Dp, iqMax |-> iqMax, Tm |-> Mul(c.Kt, iqMax)] :
                      iqMax \in {Min3(iqMaxCurrent, iqMaxVolt, iqMaxPower)}}) :
                 iqMaxVolt \in {IqMaxVolt(c, A, Babs, disc)},
                 iqMaxPower \in {IF PowerLimited(c.mode)
                                 THEN IqMaxPower(c, omega_m, Dp)
                                 ELSE PosInf}}) :
            iqMaxCurrent \in {IqMaxCurrent(c, id)},
            disc \in {VoltDisc(A, Babs, CoefC(c, omega_m, id))},
            Dp \in {IF PowerLimited(c.mode) THEN PowerDisc(c, omega_m, id, Pin)
                    ELSE NaN}})

\* one pass of the loop over k
Sample(c, omega_m, A, Babs, Pin, k) ==
    The({SampleAt(c, omega_m, A, Babs, Pin, id) : id \in {IdAt(c, k)}})

\* the samples of the passes k = lo .. hi in loop order (the range is halved
\* rather than walked, which keeps the evaluation shallow)
RECURSIVE SamplesFrom(_, _, _, _, _, _, _)
SamplesFrom(c, omega_m, A, Babs, Pin, lo, hi) ==
    IF lo = hi THEN <<Sample(c, omega_m, A, Babs, Pin, lo)>>
    ELSE The({SamplesFrom(c, omega_m, A, Babs, Pin, lo, mid)
                  \o SamplesFrom(c, omega_m, A, Babs, Pin, mid + 1, hi) :
                 mid \in {(lo + hi) \div 2}})

\* for (let k = 0; k <= N_ID; k++), A and Babs being those of the row
Samples(c, omega_m, Pin) ==
    The({SamplesFrom(c, omega_m, A, Babs, Pin, 0, N_ID) :
            A \in {CoefA(c, omega_m)}, Babs \in {CoefBabs(c, omega_m)}})

\* bestTm after the passes lo .. hi, best being its value before them:
\* if (Tm > bestTm) bestTm = Tm
RECURSIVE BestTmFrom(_, _, _, _)
BestTmFrom(smp, lo, hi, best) ==
    IF lo = hi
    THEN The({IF Gt(smp[lo].Tm, b) THEN smp[lo].Tm ELSE b : b \in {best}})
    ELSE The({The({BestTmFrom(smp, mid + 1, hi, b) :
                      b \in {BestTmFrom(smp, lo, mid, best)}}) :
                 mid \in {(lo + hi) \div 2}})

\* let bestTm = 0, then the loop
BestTm(smp) == BestTmFrom(smp, 1, Len(smp), Zero)

\* the force written as computed, without the guard
Unguarded(lbf) == lbf

\* row[key] = isFinite(lbf) && lbf > 0 ? lbf : 0
Floor0(lbf) == The({IF IsFinite(x) /\ Gt(x, Zero) THEN x ELSE Zero : x \in {lbf}})

\* the force of a motor torque: Tout = Tm * G * eff, F = Tout / max(1e-9, r),
\* lbf = F * LBF_PER_N
ForceLbf(c, Tm) ==
    LET Tout == Mul(Mul(Tm, c.gearRatio), c.gearEff)
        F == Div(Tout, Max2(Eps, c.drumRadius))
    IN  Mul(F, LBF_PER_N)

\* one pass of the loop over selected, for the limit Pin at motor speed omega_m
Cell(c, omega_m, Pin) ==
    The({The({[Pin |-> Pin, samples |-> smp, bestTm |-> bestTm,
               TmFinal |-> Min2(bestTm, c.TmMax),
               lbf |-> ForceLbf(c, Min2(bestTm, c.TmMax)),
               out |-> Floor0(ForceLbf(c, Min2(bestTm, c.TmMax)))] :
                 bestTm \in {BestTm(smp)}}) :
            smp \in {Samples(c, omega_m, Pin)}})

\* the cells of the limits selected[j .. Len(selected)] in loop order
RECURSIVE CellsFrom(_, _, _)
CellsFrom(c, omega_m, j) ==
    IF j > Len(c.selected) THEN <<>>
    ELSE <<Cell(c, omega_m, c.selected[j])>> \o CellsFrom(c, omega_m, j + 1)

\* the object row after the loop over selected: a later limit of the same
\* label overwrites an earlier one
Series(c, cells) ==
    [key \in {Label(c.selected[j]) : j \in 1..Len(c.selected)} |->
        LET last == CHOOSE j \in 1..Len(c.selected) :
                        /\ Label(c.selected[j]) = key
                        /\ \A h \in (j + 1)..Len(c.selected) :
                               Label(c.selected[h]) # key
        IN  cells[last].out]

\* one pass of the loop over i: the row pushed for sample speed i, with the
\* intermediate values of each limit kept beside it
Row(c, i) ==
    The({The({[i |-> i, speed |-> v, omega_m |-> omega_m, cells |-> cells,
               series |-> Series(c, cells)] :
                 cells \in {CellsFrom(c, omega_m, 1)}}) :
            v \in {SpeedAt(c, i)}, omega_m \in {OmegaM(c, SpeedAt(c, i))}})

(***************************************************************************)
(* The body of the data memo of App_old.tsx (power limit only).  c holds   *)
(* selected, maxSpeed, steps, drumRadius, gearRatio, gearEff, kcu.         *)
(***************************************************************************)

\* disc = omega_m^2 + 4 kcu Pin; Tm = (sqrt(disc) - omega_m) / (2 kcu)
OldTm(c, omega_m, Pin) ==
    LET disc == Add(Mul(omega_m, omega_m), Mul(Mul(Int2Num(4), c.kcu), Pin))
    IN  Div(Sub(Sqrt(disc), omega_m), Mul(Int2Num(2), c.kcu))

OldCell(c, omega_m, Pin) ==
    The({[Pin |-> Pin, Tm |-> Tm, lbf |-> ForceLbf(c, Tm),
          out |-> Floor0(ForceLbf(c, Tm))] : Tm \in {OldTm(c, omega_m, Pin)}})

\* the cells of the limits selected[j .. Len(selected)] in loop order
RECURSIVE OldCellsFrom(_, _, _)
OldCellsFrom(c, omega_m, j) ==
    IF j > Len(c.selected) THEN <<>>
    ELSE <<OldCell(c, omega_m, c.selected[j])>>
             \o OldCellsFrom(c, omega_m, j + 1)

OldRow(c, i) ==
    The({[i |-> i, speed |-> v, omega_m |-> omega_m,
          cells |-> OldCellsFrom(c, omega_m, 1)] :
            v \in {SpeedAt(c, i)}, omega_m \in {OmegaM(c, SpeedAt(c, i))}})

(***************************************************************************)
(* State                                                                   *)
(***************************************************************************)

VARIABLES
    st,      \* the useState cells, by name, and customW
    memo,    \* the useMemo cells: [deps, val] each
    probe    \* the row last computed by applying the data bodies (SolverSpec)

vars == <<st, memo, probe>>

\* the parameter fields (constMode apart) that may differ from the defaults
\* at once
MaxEdits == 1
\* rows probed per parameter snapshot: i = 0 .. MaxRow
MaxRow == 1

(***************************************************************************)
(* Rendering: every useMemo in source order.  A cell is recomputed when    *)
(* its dependency list differs from the one it was computed under.         *)
(* (Object.is on numbers is equality of the representation: NaN is NaN and *)
(* +0 is not -0.  The array selected is compared by content: a new array   *)
(* of equal content only repeats a computation of the same result.)        *)
(***************************************************************************)

NoCell == [deps |-> <<>>, val |-> <<>>]

UseMemo(cell, deps, val) ==
    IF cell.deps = deps THEN cell ELSE [deps |-> deps, val |-> val]

\* the values the data closure of App.tsx reads; v holds this render's memo
\* values
DataReads(s, v) ==
    [selected |-> s.selected, maxSpeed |-> s.maxSpeed, steps |-> s.steps,
     drumRadius |-> s.drumRadius, gearRatio |-> s.gearRatio,
     gearEff |-> s.gearEff, Imax |-> s.Imax, idFWmax |-> s.idFWmax,
     Rphase |-> v.Rphase, LphaseBase |-> v.LphaseBase, Kt |-> v.Kt,
     VphaseMax |-> v.VphaseMax, TmMax |-> v.TmMax, mode |-> s.mode]

\* a dependency list that misses mode
DataDepsStale(s, v) ==
    <<s.selected, s.maxSpeed, s.steps, s.drumRadius, s.gearRatio, s.gearEff,
      s.Imax, s.idFWmax, v.Rphase, v.LphaseBase, v.Kt, v.VphaseMax, v.TmMax,
      v.RphaseBase>>

\* the dependency list of the data memo of App.tsx
DataDeps(s, v) ==
    <<s.selected, s.maxSpeed, s.steps, s.drumRadius, s.gearRatio, s.gearEff,
      s.Imax, s.idFWmax, v.Rphase, v.LphaseBase, v.Kt, v.VphaseMax, v.TmMax,
      s.mode, v.RphaseBase>>

\* the values the data closure of App_old.tsx reads
OldDataReads(s, v) ==
    [selected |-> s.selected, maxSpeed |-> s.maxSpeed, steps |-> s.steps,
     drumRadius |-> s.drumRadius, gearRatio |-> s.gearRatio,
     gearEff |-> s.gearEff, kcu |-> v.kcu]

\* the dependency list of the data memo of App_old.tsx
OldDataDeps(s, v) ==
    <<s.selected, s.maxSpeed, s.steps, s.drumRadius, s.gearRatio, s.gearEff,
      v.kcu>>

\* The data memos hold their result as the record of values it was computed
\* from; the table itself is Row(val, i), i = 0 .. LastRow(val).
Render(m, s) ==
    LET Kt == UseMemo(m.Kt, <<s.constMode, s.KtState, s.KvState>>, KtBody(s))
        TmMax == UseMemo(m.TmMax, <<Kt.val, s.Imax>>, TmMaxBody(Kt.val, s.Imax))
        RphaseBase == UseMemo(m.RphaseBase, <<s.Rll, s.winding>>, RphaseBaseBody(s))
        LphaseBase == UseMemo(m.LphaseBase, <<s.Lll_uH, s.winding>>, LphaseBaseBody(s))
        Rphase == UseMemo(m.Rphase, <<RphaseBase.val, s.copperTempC>>,
                          RphaseBody(RphaseBase.val, s.copperTempC))
        kcu == UseMemo(m.kcu, <<Rphase.val, Kt.val>>, kcuBody(Rphase.val, Kt.val))
        VphaseMax == UseMemo(m.VphaseMax, <<s.Vbus, s.util>>, VphaseMaxBody(s))
        seriesKeys == UseMemo(m.seriesKeys, <<s.selected>>, seriesKeysBody(s.selected))
        v == [Kt |-> Kt.val, TmMax |-> TmMax.val, RphaseBase |-> RphaseBase.val,
              LphaseBase |-> LphaseBase.val, Rphase |-> Rphase.val,
              kcu |-> kcu.val, VphaseMax |-> VphaseMax.val]
    IN  [Kt |-> Kt, TmMax |-> TmMax, RphaseBase |-> RphaseBase,
         LphaseBase |-> LphaseBase, Rphase |-> Rphase, kcu |-> kcu,
         VphaseMax |-> VphaseMax, seriesKeys |-> seriesKeys,
         data |-> UseMemo(m.data, DataDeps(s, v), DataReads(s, v)),
         dataOld |-> UseMemo(m.dataOld, OldDataDeps(s, v), OldDataReads(s, v))]

\* the memo cells before the first render
NoMemo ==
    [Kt |-> NoCell, TmMax |-> NoCell, RphaseBase |-> NoCell,
     LphaseBase |-> NoCell, Rphase |-> NoCell, kcu |-> NoCell,
     VphaseMax |-> NoCell, seriesKeys |-> NoCell, data |-> NoCell,
     dataOld |-> NoCell]

NoProbe == [i |-> -1]

Init ==
    /\ st = Defaults @@ [customW |-> <<>>]
    /\ memo = Render(NoMemo, st)
    /\ probe = NoProbe

(***************************************************************************)
(* Handlers                                                                *)
(***************************************************************************)

\* a state update followed by the render it schedules
Update(s) ==
    /\ st' = s
    /\ memo' = Render(memo, s)
    /\ probe' = probe

\* the number of parameter fields of s, constMode apart, that differ from
\* the defaults
Away(s) ==
    Cardinality({f \in DOMAIN Defaults \ {"constMode", "selected"} :
                    s[f] # Defaults[f]})

\* an edit of one parameter field, within MaxEdits fields of the defaults
Edit(s) == Away(s) <= MaxEdits /\ Update(s)

\* Math.max(lo, Math.min(hi, x))
Clamp(lo, hi, x) == Max2(lo, Min2(hi, x))

setConstMode(v) == Edit([st EXCEPT !.constMode = v])
\* the Kt input is disabled unless constMode = "KT"
setKtState(t) == st.constMode = "KT" /\ Edit([st EXCEPT !.KtState = number(t)])
\* the Kv input is disabled unless constMode = "KV"
setKvState(t) == st.constMode = "KV" /\ Edit([st EXCEPT !.KvState = number(t)])
setRll(t) == Edit([st EXCEPT !.Rll = number(t)])
setLll_uH(t) == Edit([st EXCEPT !.Lll_uH = number(t)])
setWinding(v) == Edit([st EXCEPT !.winding = v])
setCopperTempC(t) == Edit([st EXCEPT !.copperTempC = number(t)])
setVbus(t) == Edit([st EXCEPT !.Vbus = number(t)])
setUtil(t) == Edit([st EXCEPT !.util = Clamp(Zero, One, number(t))])
setImax(t) == Edit([st EXCEPT !.Imax = number(t)])
\* the "Max Motor Torque" input: setImax(number(text) / Math.max(1e-9, Kt))
setImaxByTorque(t) ==
    Edit([st EXCEPT !.Imax = Div(number(t), Max2(Eps, memo.Kt.val))])
\* the field-weakening field stored as typed
setIdFWmaxRaw(t) == Edit([st EXCEPT !.idFWmax = number(t)])

setIdFWmax(t) == Edit([st EXCEPT !.idFWmax = Max2(Zero, number(t))])
setMode(v) == Edit([st EXCEPT !.mode = v])
setGearRatio(t) == Edit([st EXCEPT !.gearRatio = number(t)])
setGearEff(t) == Edit([st EXCEPT !.gearEff = Clamp(Zero, One, number(t))])
setDrumRadius(t) == Edit([st EXCEPT !.drumRadius = number(t)])
setMaxSpeed(t) == Edit([st EXCEPT !.maxSpeed = number(t)])
setSteps(t) ==
    Edit([st EXCEPT !.steps = Clamp(Int2Num(10), Int2Num(500), number(t))])

\* prev.includes(w)
Includes(list, w) == \E j \in 1..Len(list) : NumEq(list[j], w)

\* the sorted list with x put behind every entry e that the comparator does
\* not order after it (e - x > 0 is false): one step of a stable sort
RECURSIVE InsertSorted(_, _)
InsertSorted(list, x) ==
    IF list = <<>> THEN <<x>>
    ELSE IF Gt(Sub(list[1], x), Zero) THEN <<x>> \o list
    ELSE <<list[1]>> \o InsertSorted(Tail(list), x)

\* list.sort((a, b) => a - b): stable, ascending
RECURSIVE SortAsc(_)
SortAsc(list) ==
    IF list = <<>> THEN <<>>
    ELSE InsertSorted(SortAsc(SubSeq(list, 1, Len(list) - 1)), list[Len(list)])

\* [...prev, w] left unsorted
AppendOnly(list, w) == Append(list, w)

\* [...prev, w].sort((a, b) => a - b)
AppendSorted(list, w) == SortAsc(Append(list, w))

\* prev.filter((x) => x !== w)
Without(list, w) == SelectSeq(list, LAMBDA x : ~NumEq(x, w))

togglePreset(w) ==
    Update([st EXCEPT !.selected =
                  IF Includes(@, w) THEN Without(@, w) ELSE AppendSorted(@, w)])

setCustomW(t) == Update([st EXCEPT !.customW = t])

\* the value addCustom reads: v = Math.round(number(customW))
CustomValue(t) == Round(number(t))

\* if (!v) return: the values addCustom accepts
Truthy(v) == ~IsNaN(v) /\ ~IsZero(v)

addCustom ==
    LET v == CustomValue(st.customW)
    IN  /\ Truthy(v)
        /\ Update([st EXCEPT
                      !.selected = IF Includes(@, v) THEN @ ELSE AppendSorted(@, v),
                      !.customW = <<>>])

resetDefaults == Update(Defaults @@ [customW |-> st.customW])

(***************************************************************************)
(* The data bodies applied to a parameter snapshot, one row at a time      *)
(***************************************************************************)

\* the pass i of the loop of both data bodies over the rendered snapshot
ProbeRow(i) ==
    /\ probe = NoProbe
    /\ i <= LastRow(memo.data.val)
    /\ \E c \in {memo.data.val}, old \in {memo.dataOld.val} :
           probe' = [i |-> i, row |-> Row(c, i), old |-> OldRow(old, i)]
    /\ UNCHANGED <<st, memo>>

(***************************************************************************)
(* Inputs.  A text is what the user typed into a field.                    *)
(***************************************************************************)

KtTexts == {<<"0", ".", "5">>, <<"1">>}
KvTexts == {<<"9", ".", "5", "5">>, <<"1", "9", ".", "1">>}
RllTexts == {<<"0">>, <<"0", ".", "3", "2", "8">>}
LllTexts == {<<"0">>, <<"4", "7", "0">>}
TempTexts == {<<"1", "2", "5">>, <<>>}
VbusTexts == {<<"0">>, <<"2", "4">>}
UtilTexts == {<<"1", ".", "5">>, <<"-", "1">>}
ImaxTexts == {<<"-", "3">>, <<"1", "0", "0">>}
TorqueTexts == {<<"0">>, <<"1", "0">>}
IdFWTexts == {<<"-", "5">>, <<"2", "0">>}
GearTexts == {<<"0">>, <<"5">>}
EffTexts == {<<"2">>, <<"0", ".", "5">>}
RadiusTexts == {<<"0">>, <<"0", ".", "1">>}
SpeedTexts == {<<"-", "3">>, <<"0">>, <<"0", ".", "1">>}
StepsTexts == {<<"1", "0", ".", "5">>, <<"5">>, <<"1", "0", "0", "0">>,
               <<"a", "b", "c">>, <<"1", "2">>}
CustomTexts == {<<"-", "5">>, <<"2", ".", "5">>}
\* the presets whose checkbox is clicked (positions in presets)
ToggledPresets == {5}

Next ==
    \/ \E v \in {"KT", "KV"} : setConstMode(v)
    \/ \E t \in KtTexts : setKtState(t)
    \/ \E t \in KvTexts : setKvState(t)
    \/ \E t \in RllTexts : setRll(t)
    \/ \E t \in LllTexts : setLll_uH(t)
    \/ \E v \in {"DELTA", "WYE"} : setWinding(v)
    \/ \E t \in TempTexts : setCopperTempC(t)
    \/ \E t \in VbusTexts : setVbus(t)
    \/ \E t \in UtilTexts : setUtil(t)
    \/ \E t \in ImaxTexts : setImax(t)
    \/ \E t \in TorqueTexts : setImaxByTorque(t)
    \/ \E t \in IdFWTexts : setIdFWmax(t)
    \/ \E v \in {"CONC", "ECC"} : setMode(v)
    \/ \E t \in GearTexts : setGearRatio(t)
    \/ \E t \in EffTexts : setGearEff(t)
    \/ \E t \in RadiusTexts : setDrumRadius(t)
    \/ \E t \in SpeedTexts : setMaxSpeed(t)
    \/ \E t \in StepsTexts : setSteps(t)
    \/ \E j \in ToggledPresets : togglePreset(presets[j])
    \/ \E t \in CustomTexts : setCustomW(t)
    \/ addCustom
    \/ resetDefaults

Spec == Init /\ [][Next]_vars

(***************************************************************************)
(* The parameter snapshots the data bodies are applied to.  Each is a      *)
(* state the handlers reach (every field is what some text parses to);     *)
(* the values are chosen so that every intermediate result of the solver   *)
(* stays within 32 bits: with WYE winding at 25 C, Rphase = Rll / 2 and    *)
(* LphaseBase = Lll_uH / 2e6; Sqrt(3) is 55/32 on the grid, so Vbus = 55   *)
(* gives VphaseMax = 32.                                                   *)
(***************************************************************************)

SolverBase ==
    [constMode |-> "KT", KtState |-> One, KvState |-> Int2Num(35),
     mode |-> "CONC", Rll |-> Int2Num(2), Lll_uH |-> Int2Num(200000),
     winding |-> "WYE", copperTempC |-> Int2Num(25), Vbus |-> Int2Num(55),
     util |-> One, Imax |-> Int2Num(50), idFWmax |-> Zero,
     gearRatio |-> One, gearEff |-> One, drumRadius |-> One,
     maxSpeed |-> Int2Num(100), steps |-> Int2Num(10),
     selected |-> <<Int2Num(450)>>, customW |-> <<>>]

\* b with the listed fields replaced
With(b, KtState, Rll, Lll_uH, Vbus, Imax, idFWmax, mode, maxSpeed, selected) ==
    [b EXCEPT !.KtState = Int2Num(KtState), !.Rll = Int2Num(Rll),
              !.Lll_uH = Int2Num(Lll_uH), !.Vbus = Int2Num(Vbus),
              !.Imax = Int2Num(Imax), !.idFWmax = Int2Num(idFWmax),
              !.mode = mode, !.maxSpeed = Int2Num(maxSpeed),
              !.selected = selected]

Modes == {"CONC", "ECC"}
LimitLists == {<<Int2Num(450)>>, <<Int2Num(-5), Int2Num(3000)>>}

\* degenerate and sign cases of Kt, R and Imax
DegenerateStates ==
    {With(SolverBase, kt, rll, 200000, 55, imax, fw, md, 200, sel) :
        kt \in {-1, 0, 1, 2}, rll \in {0, 2}, imax \in {-3, 0, 50},
        fw \in {0, 40}, md \in Modes, sel \in LimitLists}

\* regular motors: inductance, bus voltage, current cap and direction vary
RegularStates ==
    {With(SolverBase, kt, 2, lll, vbus, imax, fw, md, ms, sel) :
        kt \in {1, 2}, lll \in {0, 200000}, vbus \in {55, 5500},
        imax \in {50, 1000}, fw \in {0, 40}, md \in Modes,
        ms \in {-200, 200}, sel \in LimitLists}

\* transmission: gear ratio, efficiency and drum radius vary
TransmissionStates ==
    {[SolverBase EXCEPT !.gearRatio = Int2Num(g), !.gearEff = e,
                        !.drumRadius = r, !.mode = md] :
        g \in {-1, 0, 2}, e \in {Zero, Rat(1, 2)}, r \in {Rat(1, 2), One},
        md \in Modes}

SolverStates == DegenerateStates \cup RegularStates \cup TransmissionStates

SolverInit ==
    /\ st \in SolverStates
    /\ memo = Render(NoMemo, st)
    /\ probe = NoProbe

SolverNext == \E i \in 0..MaxRow : ProbeRow(i)

SolverSpec == SolverInit /\ [][SolverNext]_vars

(***************************************************************************)
(* Properties of the solver (SolverSpec).  c is the snapshot the probed    *)
(* row was computed from; the row of App.tsx is probe.row and the row of   *)
(* App_old.tsx is probe.old.                                               *)
(***************************************************************************)

Probed == probe # NoProbe

\* the coefficients A and Babs and the direct evaluation of the three bounds
\* at id = 0 for the limit Pin, at the motor speed of the probed row
DirectAtZero(Pin) ==
    LET c == memo.data.val
        omega_m == probe.row.omega_m
    IN  SampleAt(c, omega_m, CoefA(c, omega_m), CoefBabs(c, omega_m), Pin, Zero)

\* neither the current bound nor the voltage bound is below the power bound
\* at any sample of the cell
Unconstrained(cell) ==
    \A k \in 1..Len(cell.samples) :
        /\ Le(cell.samples[k].iqMaxPower, cell.samples[k].iqMaxCurrent)
        /\ Le(cell.samples[k].iqMaxPower, cell.samples[k].iqMaxVolt)

\* the tolerance within which two torques (N m) or two forces (lbf) that
\* differ by the rounding of their square roots agree
Tol == Rat(1, 20)

Near(x, y) == Le(Abs(Sub(x, y)), Tol)

\* C1: for any finite inputs, at every id sample |iqMax| <= Imax, and the
\* motor torque reported for every (speed, limit) pair is at most Kt * Imax.
C1_CurrentClamp ==
    Probed =>
        \A j \in 1..Len(probe.row.cells) :
            /\ \A k \in 1..Len(probe.row.cells[j].samples) :
                   Le(Abs(probe.row.cells[j].samples[k].iqMax),
                      memo.data.val.Imax)
            /\ Le(probe.row.cells[j].TmFinal,
                  Mul(memo.data.val.Kt, memo.data.val.Imax))

\* C2: every force written into a row, by the richer model and by the simple
\* model, is finite and >= 0, whatever NaN, Infinity or negative value was
\* computed on the way.
C2_ForcesFiniteNonNegative ==
    Probed =>
        /\ \A j \in 1..Len(probe.row.cells) :
               IsFinite(probe.row.cells[j].out) /\ Ge(probe.row.cells[j].out, Zero)
        /\ \A key \in DOMAIN probe.row.series :
               IsFinite(probe.row.series[key]) /\ Ge(probe.row.series[key], Zero)
        /\ \A j \in 1..Len(probe.old.cells) :
               IsFinite(probe.old.cells[j].out) /\ Ge(probe.old.cells[j].out, Zero)

\* a row where the richer model computed a negative force and the simple
\* model a NaN or infinite one, and both wrote 0
C2_Witness ==
    /\ Probed
    /\ \E j \in 1..Len(probe.row.cells) :
           Lt(probe.row.cells[j].lbf, Zero) /\ probe.row.cells[j].out = Zero
    /\ \E j \in 1..Len(probe.old.cells) :
           ~IsFinite(probe.old.cells[j].lbf) /\ probe.old.cells[j].out = Zero

C4_RegenSupplyIndependence ==
    (Probed /\ memo.data.val.mode = "ECC") =>
        \A j, h \in 1..Len(probe.row.cells) :
            /\ probe.row.cells[j].out = probe.row.cells[h].out
            /\ probe.row.cells[j].TmFinal = probe.row.cells[h].TmFinal

\* an ECC row with two different limits and one force above 0 for both
C4_Witness ==
    /\ Probed
    /\ memo.data.val.mode = "ECC"
    /\ Len(probe.row.cells) = 2
    /\ ~NumEq(probe.row.cells[1].Pin, probe.row.cells[2].Pin)
    /\ Gt(probe.row.cells[1].out, Zero)
    /\ probe.row.cells[1].out = probe.row.cells[2].out

C7_NegativeDiscNotBinding ==
    Probed =>
        \A j \in 1..Len(probe.row.cells) :
            \A k \in 1..Len(probe.row.cells[j].samples) :
                LET smp == probe.row.cells[j].samples[k]
                IN  Lt(smp.disc, Zero) =>
                        smp.iqMax = Min2(smp.iqMaxCurrent, smp.iqMaxPower)

\* C7 amended: at a sample whose voltage discriminant is negative the
\* voltage bound is 0, and the torque of the sample is not above 0.
C7_NegativeDiscInfeasible ==
    Probed =>
        \A j \in 1..Len(probe.row.cells) :
            \A k \in 1..Len(probe.row.cells[j].samples) :
                LET smp == probe.row.cells[j].samples[k]
                IN  Lt(smp.disc, Zero) =>
                        /\ smp.iqMaxVolt = Zero
                        /\ ~Gt(smp.iqMax, Zero)
                        /\ ~Gt(smp.Tm, Zero)

\* a sample with a negative voltage discriminant whose current and power
\* bounds are both above 0 and whose iqMax is 0
C7_Witness ==
    /\ Probed
    /\ \E j \in 1..Len(probe.row.cells) :
           \E k \in 1..Len(probe.row.cells[j].samples) :
               LET smp == probe.row.cells[j].samples[k]
               IN  /\ Lt(smp.disc, Zero)
                   /\ Gt(smp.iqMaxCurrent, Zero)
                   /\ Gt(smp.iqMaxPower, Zero)
                   /\ Gt(memo.data.val.Kt, Zero)
                   /\ smp.iqMax = Zero

(***************************************************************************)
(* Properties of the application state (Spec)                              *)
(***************************************************************************)

\* C5: whatever steps and maxSpeed the inputs have set, the rows are
\* steps + 1 in number, their speeds are non-decreasing and consecutive ones
\* differ by maxSpeed / steps, the first is 0 and the last is maxSpeed.
C5_SpeedSweep ==
    LET c == memo.data.val
        last == LastRow(c)
    IN  /\ NumEq(Int2Num(last + 1), Add(st.steps, One))
        /\ \A i \in 0..(last - 1) :
               /\ Le(SpeedAt(c, i), SpeedAt(c, i + 1))
               /\ NumEq(Sub(SpeedAt(c, i + 1), SpeedAt(c, i)),
                        Div(st.maxSpeed, st.steps))
        /\ IsZero(SpeedAt(c, 0))
        /\ NumEq(SpeedAt(c, last), st.maxSpeed)

\* C8: after every handler the memo cells hold what a render from scratch
\* of the current state computes: the table of each application is the
\* function of the current snapshot, and so are the series keys.
C8_OutputIsFunctionOfSnapshot ==
    LET fresh == Render(NoMemo, st)
    IN  /\ memo.data.val = fresh.data.val
        /\ memo.dataOld.val = fresh.dataOld.val
        /\ memo.seriesKeys.val = fresh.seriesKeys.val
        /\ memo.data.val = DataReads(st, [f \in DOMAIN fresh |-> fresh[f].val])

\* a state after a mode switch and a change of the limit list, whose data
\* memos are of that state and no longer of the initial one
C8_Witness ==
    /\ st.mode = "ECC"
    /\ st.selected # Defaults.selected
    /\ memo.data.val.mode = "ECC"
    /\ memo.data.val.selected = st.selected
    /\ memo.dataOld.val.selected = st.selected
    /\ memo.data.val # Render(NoMemo, Defaults).data.val

\* C9: every member of the limit list is a preset or a positive integer.
C9_LimitsArePresetsOrPositiveIntegers ==
    \A j \in 1..Len(st.selected) :
        \/ \E p \in 1..Len(presets) : st.selected[j] = presets[p]
        \/ /\ IsFinite(st.selected[j])
           /\ Gt(st.selected[j], Zero)
           /\ st.selected[j].d = 1

\* C10: the limit list is strictly ascending, the series keys are pairwise
\* distinct, and a row holds as many series values as the list has limits.
C10_LimitsStrictlyAscending ==
    /\ \A j \in 1..(Len(st.selected) - 1) :
           Lt(st.selected[j], st.selected[j + 1])
    /\ Len(memo.seriesKeys.val) = Len(st.selected)
    /\ \A j, h \in 1..Len(memo.seriesKeys.val) :
           j # h => memo.seriesKeys.val[j] # memo.seriesKeys.val[h]
    /\ Cardinality({Label(st.selected[j]) : j \in 1..Len(st.selected)})
           = Len(st.selected)

\* a list of three limits where two added after 3000 stand before it
C10_Witness ==
    /\ Len(st.selected) = 3
    /\ st.selected[3] = Int2Num(3000)
    /\ Lt(st.selected[1], st.selected[2])
    /\ memo.seriesKeys.val[2] = <<"3", " ", "W">>

(***************************************************************************)
(* Further properties of the solver (SolverSpec)                           *)
(***************************************************************************)

\* C11: no division of the computation yields Infinity or NaN: the copper
\* loss coefficient (divided by Kt * Kt), the voltage root (divided by
\* 2 * A), the power root (divided by 2 * 3 * Rphase), the simple model's
\* root (divided by 2 * kcu) and the forces (divided by the drum radius) are
\* finite.
C11_DivisionsAreFinite ==
    Probed =>
        /\ IsFinite(memo.kcu.val)
        /\ \A j \in 1..Len(probe.row.cells) :
               /\ IsFinite(probe.row.cells[j].lbf)
               /\ IsFinite(probe.old.cells[j].Tm)
               /\ \A k \in 1..Len(probe.row.cells[j].samples) :
                      /\ IsFinite(probe.row.cells[j].samples[k].iqMaxVolt)
                      /\ memo.data.val.mode = "CONC" =>
                             IsFinite(probe.row.cells[j].samples[k].iqMaxPower)

\* the power discriminant is negative at sample k of a cell
NegativeDp(cell, k) == Lt(cell.samples[k].Dp, Zero)

\* C12: in motoring mode, where the power discriminant is negative at an id
\* sample the admissible iq of that sample is 0 and the sample's torque is
\* zero; where it is negative at every sample the reported force is 0.
C12_NegativePowerDiscGivesZero ==
    (Probed /\ memo.data.val.mode = "CONC") =>
        \A j \in 1..Len(probe.row.cells) :
            \E cell \in {probe.row.cells[j]} :
                /\ \A k \in 1..Len(cell.samples) :
                       NegativeDp(cell, k) =>
                           /\ cell.samples[k].iqMaxPower = Zero
                           /\ IsZero(cell.samples[k].iqMax)
                           /\ IsZero(cell.samples[k].Tm)
                /\ (\A k \in 1..Len(cell.samples) : NegativeDp(cell, k)) =>
                       /\ IsZero(cell.bestTm)
                       /\ cell.out = Zero

\* a motoring row of a motor with positive Kt, Imax and field weakening whose
\* first limit has a negative discriminant at every sample and reports 0,
\* and whose second limit has it at some samples only and reports a force
C12_Witness ==
    /\ Probed
    /\ memo.data.val.mode = "CONC"
    /\ Gt(memo.data.val.Kt, Zero)
    /\ Gt(memo.data.val.Imax, Zero)
    /\ Gt(memo.data.val.idFWmax, Zero)
    /\ Len(probe.row.cells) = 2
    /\ \E a \in {probe.row.cells[1]}, b \in {probe.row.cells[2]} :
           /\ \A k \in 1..Len(a.samples) : NegativeDp(a, k)
           /\ a.out = Zero
           /\ \E k \in 1..Len(b.samples) : NegativeDp(b, k)
           /\ \E k \in 1..Len(b.samples) : ~NegativeDp(b, k)
           /\ Gt(b.out, Zero)

\* C13: with Imax = 0 or Kt = 0 the torque found by the search, the capped
\* torque and the reported force are 0 in every row, for every limit, in
\* both modes and for every idFWmax >= 0.
C13_NoCurrentOrNoConstantGivesZero ==
    (/\ Probed
     /\ IsZero(memo.data.val.Imax) \/ IsZero(memo.data.val.Kt)) =>
        \A j \in 1..Len(probe.row.cells) :
            /\ IsZero(probe.row.cells[j].bestTm)
            /\ IsZero(probe.row.cells[j].TmFinal)
            /\ probe.row.cells[j].out = Zero

\* a row of a motor with positive Kt and Imax = 0 where the voltage and the
\* power limit both leave room at some sample, and the force is still 0
C13_Witness ==
    /\ Probed
    /\ IsZero(memo.data.val.Imax)
    /\ Gt(memo.data.val.Kt, Zero)
    /\ Gt(memo.data.val.idFWmax, Zero)
    /\ \E j \in 1..Len(probe.row.cells) :
           /\ \E k \in 1..Len(probe.row.cells[j].samples) :
                  /\ Gt(probe.row.cells[j].samples[k].iqMaxVolt, Zero)
                  /\ Gt(probe.row.cells[j].samples[k].iqMaxPower, Zero)
           /\ probe.row.cells[j].out = Zero

\* a row of a motor with Kt = 0 and positive Imax where some sample admits a
\* positive iq, and the force is still 0
C13_WitnessNoConstant ==
    /\ Probed
    /\ IsZero(memo.data.val.Kt)
    /\ Gt(memo.data.val.Imax, Zero)
    /\ \E j \in 1..Len(probe.row.cells) :
           /\ \E k \in 1..Len(probe.row.cells[j].samples) :
                  Gt(probe.row.cells[j].samples[k].iqMax, Zero)
           /\ probe.row.cells[j].out = Zero

\* the cell the solver computes for the limit Pin at the probed speed when
\* field weakening is switched off and every other value read is the same
WithoutFieldWeakening(Pin) ==
    Cell([memo.data.val EXCEPT !.idFWmax = Zero], probe.row.omega_m, Pin)

\* C15: for the same other parameters, speed, mode and limit, the torque and
\* the force computed with idFWmax > 0 are >= those computed with
\* idFWmax = 0: the first sample of the grid is the evaluation at id = 0.
C15_FieldWeakeningNeverLowers ==
    (Probed /\ Gt(memo.data.val.idFWmax, Zero)) =>
        \A j \in 1..Len(probe.row.cells) :
            \E cell \in {probe.row.cells[j]} :
                \E base \in {WithoutFieldWeakening(cell.Pin)} :
                    /\ IsZero(cell.samples[1].id)
                    /\ cell.samples[1].Tm = base.samples[1].Tm
                    /\ Ge(cell.bestTm, base.bestTm)
                    /\ Ge(cell.TmFinal, base.TmFinal)
                    /\ Ge(cell.out, base.out)

\* a row computed with idFWmax > 0 where field weakening raised the torque
\* and the force above those of idFWmax = 0
C15_Witness ==
    /\ Probed
    /\ Gt(memo.data.val.idFWmax, Zero)
    /\ \E j \in 1..Len(probe.row.cells) :
           \E cell \in {probe.row.cells[j]} :
               \E base \in {WithoutFieldWeakening(cell.Pin)} :
                   /\ Gt(cell.TmFinal, base.TmFinal)
                   /\ Gt(cell.out, base.out)

\* a row computed with idFWmax > 0 where the sample id = 0 is the best one
C15_WitnessEqual ==
    /\ Probed
    /\ Gt(memo.data.val.idFWmax, Zero)
    /\ \E j \in 1..Len(probe.row.cells) :
           \E cell \in {probe.row.cells[j]} :
               /\ Gt(cell.TmFinal, Zero)
               /\ cell.bestTm = cell.samples[1].Tm
               /\ \E k \in 2..Len(cell.samples) :
                      Lt(cell.samples[k].Tm, cell.bestTm)

\* C16: in motoring mode with Rphase > 0 and Kt > 0, for any two limits
\* P1 <= P2 of a row, the torque found for P1 and the value written in the
\* "P1 W" series are <= those of P2, in the richer and in the simple model.
C16_ForceMonotoneInSupplyLimit ==
    (/\ Probed
     /\ memo.data.val.mode = "CONC"
     /\ Gt(memo.data.val.Rphase, Zero)
     /\ Gt(memo.data.val.Kt, Zero)) =>
        \A j1, j2 \in 1..Len(probe.row.cells) :
            \E a \in {probe.row.cells[j1]}, b \in {probe.row.cells[j2]} :
                Le(a.Pin, b.Pin) =>
                    /\ Le(a.bestTm, b.bestTm)
                    /\ Le(a.TmFinal, b.TmFinal)
                    /\ Le(a.out, b.out)
                    /\ Le(probe.row.series[Label(a.Pin)],
                          probe.row.series[Label(b.Pin)])
                    /\ Le(probe.old.cells[j1].out, probe.old.cells[j2].out)

\* a motoring row of a motor with Rphase > 0 and Kt > 0 where the smaller
\* limit yields a positive force and the larger limit a strictly larger one
C16_Witness ==
    /\ Probed
    /\ memo.data.val.mode = "CONC"
    /\ Gt(memo.data.val.Rphase, Zero)
    /\ Gt(memo.data.val.Kt, Zero)
    /\ Len(probe.row.cells) = 2
    /\ Lt(probe.row.cells[1].Pin, probe.row.cells[2].Pin)
    /\ Gt(probe.row.cells[1].out, Zero)
    /\ Lt(probe.row.cells[1].out, probe.row.cells[2].out)

\* a motoring row where the smaller limit yields 0 and the larger a force, in
\* both models
C16_WitnessFromZero ==
    /\ Probed
    /\ memo.data.val.mode = "CONC"
    /\ Gt(memo.data.val.Rphase, Zero)
    /\ Gt(memo.data.val.Kt, Zero)
    /\ Len(probe.row.cells) = 2
    /\ Lt(probe.row.cells[1].Pin, probe.row.cells[2].Pin)
    /\ probe.row.cells[1].out = Zero
    /\ Gt(probe.row.cells[2].out, Zero)
    /\ probe.old.cells[1].out = Zero
    /\ Gt(probe.old.cells[2].out, Zero)

(***************************************************************************)
(* Further properties of the application state (Spec)                      *)
(***************************************************************************)

\* C14: in every state reached by input edits and resets, steps lies in
\* [10, 500], idFWmax is >= 0, and every d-axis current of the grid search
\* (k = 0..N_ID, 41 samples) lies in [-idFWmax, 0], the first being 0 and the
\* last -idFWmax.
C14_StepsAndFieldWeakeningRanges ==
    /\ Ge(st.steps, Int2Num(10))
    /\ Le(st.steps, Int2Num(500))
    /\ Ge(st.idFWmax, Zero)
    /\ memo.data.val.steps = st.steps
    /\ memo.data.val.idFWmax = st.idFWmax
    /\ Cardinality(0..N_ID) = 41
    /\ \A k \in 0..N_ID :
           \E id \in {IdAt(memo.data.val, k)} :
               /\ Le(Neg(st.idFWmax), id)
               /\ Le(id, Zero)
    /\ IsZero(IdAt(memo.data.val, 0))
    /\ NumEq(IdAt(memo.data.val, N_ID), Neg(st.idFWmax))

\* a state after an edit of the field-weakening field to a positive value:
\* the grid runs from 0 through negative currents down to -idFWmax
C14_Witness ==
    /\ Gt(st.idFWmax, Zero)
    /\ memo.data.val.idFWmax = st.idFWmax
    /\ IsZero(IdAt(memo.data.val, 0))
    /\ Lt(IdAt(memo.data.val, 1), Zero)
    /\ Gt(IdAt(memo.data.val, N_ID - 1), Neg(st.idFWmax))
    /\ NumEq(IdAt(memo.data.val, N_ID), Neg(st.idFWmax))

\* a state after an edit of the chart points field that was clamped
C14_WitnessSteps ==
    /\ st.steps = Int2Num(500)
    /\ memo.data.val.steps = Int2Num(500)

====
